---- MODULE Spec2Model ----
(***************************************************************************)
(* A model of the two scripts of the repository:                            *)
(*   src/hw1/hw1.py  n-gram frequency counting (myfilter, mysplit, the      *)
(*                   reduceByKey/sortBy loop, printOutput)                  *)
(*   src/hw2/hw2.py  the tweet pipeline (safe_parse, help1, the tokenizer,  *)
(*                   inter_usertweets, tokens, interresults, the per-group  *)
(*                   report)                                                *)
(*                                                                          *)
(* A Python string is a sequence of characters; a character is a one-       *)
(* character TLA+ string ("a", " ", "\t"), or the name of its code point    *)
(* for a character outside ASCII ("U+00C9").  An RDD is the sequence of its *)
(* elements.                                                                *)
(***************************************************************************)
EXTENDS Integers, Sequences, FiniteSets, TLC

VARIABLES
    \* ---- a single call of one of the pure functions of hw1.py ----
    fn,                 \* "none", "myfilter" or "mysplit": the function called
    arg_s,              \* its string argument
    arg_n,              \* its order argument (mysplit), 0 for myfilter
    ret,                \* what it returned
    \* ---- the script hw1.py ----
    textRDD,            \* hw1.py:37  the paragraphs read from the file
    sentences,          \* hw1.py:44
    n,                  \* hw1.py:100 the loop variable
    filtered_sentences, \* hw1.py:102
    freq_ngramRDD,      \* hw1.py:103 the elements <<ngram, count>> of the RDD
    top,                \* hw1.py:57  the local variable of printOutput
    pc1,                \* position of the script hw1.py
    \* ---- the script hw2.py ----
    contents,           \* hw2.py:110 the lines of the input files
    mypickle,           \* hw2.py:199 user id -> group 0..6
    usertweets,         \* hw2.py:162 sequence of <<user id, text>>
    users_count,        \* hw2.py:183 users.count()
    result,             \* hw2.py:218 sequence of <<group, posts>>
    mytokens,           \* hw2.py:520 the distinct tokens
    inter_usertweets,   \* hw2.py:561 user id -> list of the user's tokens
    tokens,             \* hw2.py:563 the elements <<token, users>> of the RDD
    top20,              \* hw2.py:568 tokens.take(20)
    dic,                \* hw2.py:680 token -> users
    interresults,       \* hw2.py:700 partition -> its records
    group_i,            \* hw2.py:705 the loop variable i
    printed,            \* hw2.py:707 what print_tokens was given: <<i, list>>
    err,                \* the exception that ended hw2.py, or "none"
    pc2,                \* position of the script hw2.py
    \* ---- one reduceByKey job, as Spark runs it ----
    agg_pairs,          \* the <<key, value>> elements of the RDD it is called on
    agg_shards,         \* the partitions of the RDD: each a sequence of elements
    agg_partials,       \* the key -> value tables not merged yet
    agg_result,         \* the elements <<key, value>> of the reduced RDD
    pc3                 \* position of the job

fnvars  == <<fn, arg_s, arg_n, ret>>
hw1vars == <<textRDD, sentences, n, filtered_sentences, freq_ngramRDD, top, pc1>>
hw2vars == <<contents, mypickle, usertweets, users_count, result, mytokens,
             inter_usertweets, tokens, top20, dic, interresults, group_i, printed,
             err, pc2>>
aggvars == <<agg_pairs, agg_shards, agg_partials, agg_result, pc3>>
vars    == <<fnvars, hw1vars, hw2vars, aggvars>>

----------------------------------------------------------------------------
(* Characters (Python 2 unicode objects: pyspark hands Hadoop Text values   *)
(* to Python as unicode).                                                   *)

UpperCase == <<"A","B","C","D","E","F","G","H","I","J","K","L","M",
               "N","O","P","Q","R","S","T","U","V","W","X","Y","Z">>
LowerCase == <<"a","b","c","d","e","f","g","h","i","j","k","l","m",
               "n","o","p","q","r","s","t","u","v","w","x","y","z">>
AsciiDigits == {"0","1","2","3","4","5","6","7","8","9"}

Range(s) == {s[j] : j \in 1..Len(s)}

\* unicode.isdigit(): the ASCII digits, and digits outside ASCII such as
\* SUPERSCRIPT TWO (U+00B2).
isdigit(ch) == ch \in AsciiDigits \cup {"U+00B2"}

\* unicode.isupper() / unicode.isalpha(): the ASCII letters, and letters
\* outside ASCII such as E WITH ACUTE (U+00C9 upper, U+00E9 lower).
isupper(ch) == ch \in Range(UpperCase) \cup {"U+00C9"}
isalpha(ch) == ch \in Range(UpperCase) \cup Range(LowerCase) \cup {"U+00C9", "U+00E9"}

\* unicode.lower(): one character to one character.
lower(ch) ==
    IF ch \in Range(UpperCase)
    THEN LowerCase[CHOOSE j \in 1..Len(UpperCase) : UpperCase[j] = ch]
    ELSE IF ch = "U+00C9" THEN "U+00E9" ELSE ch

\* unicode.isspace(): what str.split() with no argument splits on.
isspace(ch) == ch \in {" ", "\t", "\n", "\r", "U+00A0"}

----------------------------------------------------------------------------
(* hw1.py: myfilter and mysplit                                             *)

\* hw1.py:84-90, the body of the loop "for ch in sentence" from index i on
RECURSIVE myfilter_loop(_, _, _)
myfilter_loop(sentence, i, res) ==
    IF i > Len(sentence) THEN res
    ELSE LET ch == sentence[i] IN
         IF isdigit(ch) THEN myfilter_loop(sentence, i + 1, Append(res, ch))
         ELSE IF isalpha(ch) THEN myfilter_loop(sentence, i + 1, Append(res, lower(ch)))
         ELSE myfilter_loop(sentence, i + 1, Append(res, " "))

\* myfilter with the final else branch left out: a character that is neither a
\* digit nor a letter is removed instead of becoming a space
myfilter_dropping(sentence) ==
    LET kept == SelectSeq(sentence, LAMBDA ch : isdigit(ch) \/ isalpha(ch))
    IN  [j \in 1..Len(kept) |-> lower(kept[j])]

\* myfilter with res starting as a space instead of the empty string
myfilter_padded(sentence) == myfilter_loop(sentence, 1, <<" ">>)

\* hw1.py:82-91
myfilter(sentence) == myfilter_loop(sentence, 1, <<>>)

\* str.split() with no argument: the maximal runs of non-whitespace
\* characters, in order; no empty string is ever returned.
RECURSIVE split_loop(_, _, _, _)
split_loop(s, i, cur, words) ==
    LET flushed == IF cur = <<>> THEN words ELSE Append(words, cur) IN
    IF i > Len(s) THEN flushed
    ELSE IF isspace(s[i]) THEN split_loop(s, i + 1, <<>>, flushed)
    ELSE split_loop(s, i + 1, Append(cur, s[i]), words)

split(s) == split_loop(s, 1, <<>>, <<>>)

\* join that writes the separator after every word, the last one too
RECURSIVE join_trailing(_, _)
join_trailing(sep, words) ==
    IF words = <<>> THEN <<>>
    ELSE words[1] \o sep \o join_trailing(sep, Tail(words))

\* sep.join(words)
RECURSIVE join(_, _)
join(sep, words) ==
    IF words = <<>> THEN <<>>
    ELSE IF Len(words) = 1 THEN words[1]
    ELSE words[1] \o sep \o join(sep, Tail(words))

\* words[a:b] for 0 <= a <= b (Python clips b to len(words))
slice(words, a, b) ==
    LET hi == IF b > Len(words) THEN Len(words) ELSE b IN
    IF a >= hi THEN <<>> ELSE SubSeq(words, a + 1, hi)

\* the loop with range(len(words)-n): the last window is lost
RECURSIVE mysplit_loop_short(_, _, _, _)
mysplit_loop_short(words, nn, i, res) ==
    IF i >= Len(words) - nn THEN res
    ELSE mysplit_loop_short(words, nn, i + 1,
                            Append(res, join(<<" ">>, slice(words, i, i + nn))))

\* hw1.py:96-97, the loop "for i in range(len(words)-n+1)" from i on
RECURSIVE mysplit_loop(_, _, _, _)
mysplit_loop(words, nn, i, res) ==
    IF i >= Len(words) - nn + 1 THEN res
    ELSE mysplit_loop(words, nn, i + 1, Append(res, join(<<" ">>, slice(words, i, i + nn))))

\* hw1.py:93-98
mysplit(sentence, nn) == mysplit_loop(split(sentence), nn, 0, <<>>)

----------------------------------------------------------------------------
(* The RDD operations the scripts use                                       *)

\* the function a script hands to reduceByKey, by name:
\*   "add"    lambda a, b: a + b          (hw1.py:103, hw2.py:218, 563, 700)
\*   "union"  lambda a, b : a.union(b)    (hw2.py:561)
\* a function that keeps its first argument
apply_first(op, a, b) == a

apply(op, a, b) == IF op = "add" THEN a + b ELSE a \cup b

\* the values values[a..b] of a key merged with op.  Spark merges a key's
\* values within each partition and then the partitions' results, so the
\* grouping is not the script's to choose; the values are merged by halves.
RECURSIVE fold(_, _, _, _)
fold(op, values, a, b) ==
    IF a = b THEN values[a]
    ELSE LET m == (a + b) \div 2
         IN  apply(op, fold(op, values, a, m), fold(op, values, m + 1, b))

\* the values of key k in a sequence of <<key, value>>, in order
valuesOf(k, pairs) ==
    LET sel == SelectSeq(pairs, LAMBDA p : p[1] = k)
    IN  [j \in 1..Len(sel) |-> sel[j][2]]

\* reduceByKey that keeps a key's last value instead of folding its values
reduceByKey_last(op, pairs) ==
    [k \in {pairs[j][1] : j \in 1..Len(pairs)} |->
        LET values == valuesOf(k, pairs) IN values[Len(values)]]

\* rdd.reduceByKey(op): one value for each key that occurs, the fold of the
\* key's values; a key that never occurs gets no entry.
reduceByKey(op, pairs) ==
    [k \in {pairs[j][1] : j \in 1..Len(pairs)} |->
        LET values == valuesOf(k, pairs) IN fold(op, values, 1, Len(values))]

\* the <<key, value>> elements of a reduced RDD
items(table) == {<<k, table[k]>> : k \in DOMAIN table}

\* rdd.flatMap over a sequence of sequences
RECURSIVE flatten_range(_, _, _)
flatten_range(seqs, a, b) ==
    IF a > b THEN <<>>
    ELSE IF a = b THEN seqs[a]
    ELSE LET m == (a + b) \div 2
         IN  flatten_range(seqs, a, m) \o flatten_range(seqs, m + 1, b)

flatten(seqs) == flatten_range(seqs, 1, Len(seqs))

\* rdd.take(k)
take(rdd, k) == IF Len(rdd) <= k THEN rdd ELSE SubSeq(rdd, 1, k)

\* the sort by count, least first
RECURSIVE sortBy_count(_)
sortBy_count(S) ==
    IF S = {} THEN {<<>>}
    ELSE UNION { {<<x>> \o rest : rest \in sortBy_count(S \ {x})} :
                 x \in {y \in S : \A z \in S : y[2] <= z[2]} }

\* hw1.py:103  .sortBy(lambda x:-x[1]), hw2.py:563  .sortBy(lambda x: x[1],
\* False): every order of the elements S in which the keys -count do not
\* decrease; Spark leaves the order of elements with equal keys open.
RECURSIVE sortBy_negcount(_)
sortBy_negcount(S) ==
    IF S = {} THEN {<<>>}
    ELSE UNION { {<<x>> \o rest : rest \in sortBy_negcount(S \ {x})} :
                 x \in {y \in S : \A z \in S : -y[2] <= -z[2]} }

----------------------------------------------------------------------------
(* hw2.py: the tokenizer (hw2.py:341-485)                                   *)

\* the printable ASCII characters, code points 32..126, in order (the grave
\* accent, which a TLA+ string cannot hold, by the name of its code point)
Ascii ==
    <<" ","!","\"","#","$","%","&","'","(",")","*","+",",","-",".","/",
      "0","1","2","3","4","5","6","7","8","9",":",";","<","=",">","?",
      "@","A","B","C","D","E","F","G","H","I","J","K","L","M","N","O",
      "P","Q","R","S","T","U","V","W","X","Y","Z","[","\\","]","^","_",
      "U+0060","a","b","c","d","e","f","g","h","i","j","k","l","m","n","o",
      "p","q","r","s","t","u","v","w","x","y","z","{","|","}","~">>

\* ord(ch): the code point of a character
ord(ch) ==
    IF ch \in Range(Ascii) THEN 31 + (CHOOSE j \in 1..Len(Ascii) : Ascii[j] = ch)
    ELSE IF ch = "\t" THEN 9
    ELSE IF ch = "\n" THEN 10
    ELSE IF ch = "\r" THEN 13
    ELSE IF ch = "U+00A0" THEN 160
    ELSE IF ch = "U+00B2" THEN 178
    ELSE IF ch = "U+00C9" THEN 201
    ELSE IF ch = "U+00E9" THEN 233
    ELSE 65533

\* a regular expression is a tree of nodes [k, c, r]: k the kind, c the
\* character or the name of the character class, r the sub-expressions
Lit(ch)   == [k |-> "lit",  c |-> ch, r |-> <<>>]
Cls(name) == [k |-> "cls",  c |-> name, r |-> <<>>]
Cat(rs)   == [k |-> "cat",  c |-> "", r |-> rs]
Alt(rs)   == [k |-> "alt",  c |-> "", r |-> rs]
Opt(re)   == [k |-> "opt",  c |-> "", r |-> <<re>>]
Star(re)  == [k |-> "star", c |-> "", r |-> <<re>>]
Plus(re)  == Cat(<<re, Star(re)>>)

\* [\w_] under re.UNICODE
isword(ch) == isalpha(ch) \/ isdigit(ch) \/ ch = "_"
\* [a-z] under re.I
isaz(ch) == ch \in Range(UpperCase) \cup Range(LowerCase)

\* the character classes of the regular expressions of hw2.py:341-412, as the
\* flags re.I and re.UNICODE make them
inClass(name, ch) ==
    CASE name = "01"     -> ch \in {"0", "1"}                               \* [01]
      [] name = "sep"    -> ch \in {"-", "."} \/ isspace(ch)                \* [\-\s.]
      [] name = "sepr"   -> ch \in {"-", ".", ")"} \/ isspace(ch)           \* [\-\s.\)]
      [] name = "d"      -> ch \in AsciiDigits                              \* \d
      [] name = "url"    ->                       \* [a-zA-Z]|[0-9]|[$-_@.&+]|[!*\(\),]
            \/ isaz(ch) \/ ch \in AsciiDigits
            \/ (ord(ch) >= 36 /\ ord(ch) <= 95)
            \/ ch \in {"@", ".", "&", "+", "!", "*", "(", ")", ","}
      [] name = "hex"    -> ch \in AsciiDigits \cup
                            {"a","b","c","d","e","f","A","B","C","D","E","F"}
      [] name = "ltgt"   -> ch \in {"<", ">"}                               \* [<>]
      [] name = "eyes"   -> ch \in {":", ";", "=", "8"}                     \* [:;=8]
      [] name = "nose"   -> ch \in {"-", "o", "O", "*", "'"}                \* [\-o\*\']
      [] name = "mouth"  ->                          \* [\)\]\(\[dDpP/\:\}\{@\|\\]
            ch \in {")", "]", "(", "[", "d", "D", "p", "P", "/", ":", "}", "{", "@", "|", "\\"}
      [] name = "notgt"  -> ch # ">"                                        \* [^>]
      [] name = "w"      -> isword(ch)                                      \* [\w_]
      [] name = "wa"     -> isaz(ch) \/ ch \in AsciiDigits \/ ch = "_"      \* \w, no flag
      [] name = "wq"     -> isword(ch) \/ ch \in {"'", "-"}                 \* [\w\'_\-]
      [] name = "az"     -> isaz(ch)                                        \* [a-z]
      [] name = "azq"    -> isaz(ch) \/ ch \in {"'", "-", "_"}              \* [a-z'\-_]
      [] name = "pm"     -> ch \in {"+", "-"}                               \* [+\-]
      [] name = "numsep" -> ch \in {",", "/", ".", ":", "-"}                \* [,/.:-]
      [] name = "s"      -> isspace(ch)                                     \* \s
      [] name = "S"      -> ~isspace(ch)                                    \* \S
      [] OTHER           -> FALSE

\* a followed by the elements of b that a does not hold
merge(a, b) == a \o SelectSeq(b, LAMBDA e : e \notin Range(a))

\* ends(re, s, i): the positions at which a match of re that starts at
\* position i of s can end, in the order in which the backtracking matcher
\* of Python's re tries them (greedy operators first take as much as they
\* can, alternatives are tried from the left); the first is the match.
RECURSIVE ends(_, _, _)
RECURSIVE chain(_, _, _)
chain(starts, re, s) ==
    IF starts = <<>> THEN <<>>
    ELSE merge(ends(re, s, Head(starts)), chain(Tail(starts), re, s))

ends(re, s, i) ==
    CASE re.k = "lit"  -> IF i <= Len(s) /\ lower(s[i]) = lower(re.c) THEN <<i + 1>> ELSE <<>>
      [] re.k = "cls"  -> IF i <= Len(s) /\ inClass(re.c, s[i]) THEN <<i + 1>> ELSE <<>>
      [] re.k = "cat"  -> IF re.r = <<>> THEN <<i>>
                          ELSE chain(ends(Head(re.r), s, i), Cat(Tail(re.r)), s)
      [] re.k = "alt"  -> IF re.r = <<>> THEN <<>>
                          ELSE merge(ends(Head(re.r), s, i), ends(Alt(Tail(re.r)), s, i))
      [] re.k = "opt"  -> merge(ends(re.r[1], s, i), <<i>>)
      [] re.k = "star" -> merge(chain(SelectSeq(ends(re.r[1], s, i), LAMBDA e : e > i), re, s),
                                <<i>>)

\* hw2.py:357-371  phone numbers
phone_re ==
    Cat(<< Opt(Cat(<<Opt(Lit("+")), Cls("01"), Star(Cls("sep"))>>)),
           Opt(Cat(<<Opt(Lit("(")), Cls("d"), Cls("d"), Cls("d"), Star(Cls("sepr"))>>)),
           Cls("d"), Cls("d"), Cls("d"),
           Star(Cls("sep")),
           Cls("d"), Cls("d"), Cls("d"), Cls("d") >>)

\* hw2.py:374  URLs
url_re ==
    Cat(<< Lit("h"), Lit("t"), Lit("t"), Lit("p"), Opt(Lit("s")),
           Lit(":"), Lit("/"), Lit("/"),
           Plus(Alt(<< Cls("url"), Cat(<<Lit("%"), Cls("hex"), Cls("hex")>>) >>)) >>)

\* hw2.py:341-352  emoticons
emoticon_string ==
    Alt(<< Cat(<<Opt(Cls("ltgt")), Cls("eyes"), Opt(Cls("nose")), Cls("mouth")>>),
           Cat(<<Cls("mouth"), Opt(Cls("nose")), Cls("eyes"), Opt(Cls("ltgt"))>>) >>)

\* hw2.py:380  HTML tags
tag_re == Cat(<<Lit("<"), Plus(Cls("notgt")), Lit(">")>>)

\* hw2.py:383  Twitter username
username_re == Cat(<<Lit("@"), Plus(Cls("w"))>>)

\* hw2.py:386  Twitter hashtags
hashtag_re == Cat(<<Plus(Lit("#")), Plus(Cls("w")), Star(Cls("wq")), Plus(Cls("w"))>>)

\* hw2.py:389-399  remaining word types
words_re ==
    Alt(<< Cat(<<Cls("az"), Plus(Cls("azq")), Cls("az")>>),
           Cat(<<Opt(Cls("pm")), Plus(Cls("d")), Cls("numsep"), Plus(Cls("d")), Opt(Cls("pm"))>>),
           Plus(Cls("w")),
           Cat(<<Lit("."), Plus(Cat(<<Star(Cls("s")), Lit(".")>>))>>),
           Cls("S") >>)

\* hw2.py:355-400
regex_strings ==
    <<phone_re, url_re, emoticon_string, tag_re, username_re, hashtag_re, words_re>>

\* hw2.py:405  the alternatives joined with "|"
word_re == Alt(regex_strings)

\* hw2.py:408  compiled from regex_strings[1]
emoticon_re == regex_strings[1 + 1]

\* re.findall(s) from position i on: the leftmost match, then the scan goes
\* on where it ended; a character at which nothing matches is skipped.
RECURSIVE findall_from(_, _, _, _)
findall_from(re, s, i, found) ==
    IF i > Len(s) THEN found
    ELSE LET e == ends(re, s, i) IN
         IF e = <<>> THEN findall_from(re, s, i + 1, found)
         ELSE IF Head(e) = i
         THEN findall_from(re, s, i + 1, Append(found, <<>>))
         ELSE findall_from(re, s, Head(e), Append(found, SubSeq(s, i, Head(e) - 1)))

findall(re, s) == findall_from(re, s, 1, <<>>)

\* re.search(s): whether re matches somewhere in s
search(re, s) == \E i \in 1..(Len(s) + 1) : ends(re, s, i) # <<>>

\* x.lower() of a string
lower_str(x) == [j \in 1..Len(x) |-> lower(x[j])]

\* text.encode('utf-8'): an ASCII character is one byte, written as the
\* character; a character outside ASCII is two bytes, written "0xNN"
encode_utf8_char(ch) ==
    CASE ch = "U+00A0" -> <<"0xC2", "0xA0">>
      [] ch = "U+00B2" -> <<"0xC2", "0xB2">>
      [] ch = "U+00C9" -> <<"0xC3", "0x89">>
      [] ch = "U+00E9" -> <<"0xC3", "0xA9">>
      [] OTHER         -> <<ch>>

encode_utf8(text) == flatten([j \in 1..Len(text) |-> encode_utf8_char(text[j])])

\* a Python exception, or a value
Raise(name) == [exc |-> name, val |-> <<>>]
Return(x)   == [exc |-> "none", val |-> x]

\* whether a byte is ASCII
isascii(b) == b \in Range(Ascii) \cup {"\t", "\n", "\r"}

\* str.encode('string_escape') of one byte
string_escape_byte(b) ==
    CASE b = "\\"   -> <<"\\", "\\">>
      [] b = "'"    -> <<"\\", "'">>
      [] b = "\t"   -> <<"\\", "t">>
      [] b = "\n"   -> <<"\\", "n">>
      [] b = "\r"   -> <<"\\", "r">>
      [] b = "0xC2" -> <<"\\", "x", "c", "2">>
      [] b = "0xC3" -> <<"\\", "x", "c", "3">>
      [] b = "0xA0" -> <<"\\", "x", "a", "0">>
      [] b = "0xB2" -> <<"\\", "x", "b", "2">>
      [] b = "0x89" -> <<"\\", "x", "8", "9">>
      [] b = "0xA9" -> <<"\\", "x", "a", "9">>
      [] OTHER      -> <<b>>

\* str(s).encode('string_escape')
string_escape(s) == flatten([j \in 1..Len(s) |-> string_escape_byte(s[j])])

\* unicode(s) of a byte string: decodes as ASCII; a byte outside ASCII raises
\* UnicodeDecodeError
unicode(s) ==
    IF \A j \in 1..Len(s) : isascii(s[j]) THEN Return(s)
    ELSE Raise("UnicodeDecodeError")

\* hw2.py:427-431 without the except clause
to_unicode_strict(s) == unicode(s)

\* hw2.py:427-431: try unicode(s); on UnicodeDecodeError the escaped bytes
\* are converted instead
to_unicode(s) ==
    LET r == unicode(s) IN
    IF r.exc = "UnicodeDecodeError" THEN unicode(string_escape(s)) ELSE r

\* hw2.py:411-413 (compiled without flags: \d and \w are ASCII)
html_entity_digit_re == Cat(<<Lit("&"), Lit("#"), Plus(Cls("d")), Lit(";")>>)
html_entity_alpha_re == Cat(<<Lit("&"), Plus(Cls("wa")), Lit(";")>>)
amp == <<"&", "a", "m", "p", ";">>

\* s.replace(old, new) from position i on
RECURSIVE replace_from(_, _, _, _)
replace_from(s, old, new, i) ==
    IF i > Len(s) THEN <<>>
    ELSE IF i + Len(old) - 1 <= Len(s) /\ SubSeq(s, i, i + Len(old) - 1) = old
    THEN new \o replace_from(s, old, new, i + Len(old))
    ELSE <<s[i]>> \o replace_from(s, old, new, i + 1)

replace(s, old, new) == replace_from(s, old, new, 1)

\* int(digits)
RECURSIVE int_of(_)
int_of(digits) ==
    IF digits = <<>> THEN 0
    ELSE 10 * int_of(SubSeq(digits, 1, Len(digits) - 1))
         + (ord(digits[Len(digits)]) - 48)

\* unichr(k) for the code points of the character table; "U+FFFD" stands for
\* every other character
unichr(k) ==
    IF k >= 32 /\ k <= 126 THEN Ascii[k - 31]
    ELSE CASE k = 9   -> "\t"
           [] k = 10  -> "\n"
           [] k = 13  -> "\r"
           [] k = 160 -> "U+00A0"
           [] k = 178 -> "U+00B2"
           [] k = 201 -> "U+00C9"
           [] k = 233 -> "U+00E9"
           [] OTHER   -> "U+FFFD"

\* the greatest argument of unichr (a wide build); above it unichr raises
\* ValueError
MaxUnichr == 1114111

\* htmlentitydefs.name2codepoint, the names the model knows (0: KeyError)
name2codepoint(name) ==
    CASE name = <<"a","m","p">>               -> 38
      [] name = <<"l","t">>                   -> 60
      [] name = <<"g","t">>                   -> 62
      [] name = <<"q","u","o","t">>           -> 34
      [] name = <<"n","b","s","p">>           -> 160
      [] name = <<"e","a","c","u","t","e">>   -> 233
      [] OTHER                                -> 0

\* hw2.py:468-474, for the entities found, in the order found
RECURSIVE replace_digit_ents(_, _)
replace_digit_ents(s, ents) ==
    IF ents = <<>> THEN s
    ELSE LET ent == Head(ents)
             entnum == int_of(SubSeq(ent, 3, Len(ent) - 1))
         IN  replace_digit_ents(
                 IF entnum > MaxUnichr THEN s ELSE replace(s, ent, <<unichr(entnum)>>),
                 Tail(ents))

\* hw2.py:478-483
RECURSIVE replace_alpha_ents(_, _)
replace_alpha_ents(s, ents) ==
    IF ents = <<>> THEN s
    ELSE LET ent == Head(ents)
             code == name2codepoint(SubSeq(ent, 2, Len(ent) - 1))
         IN  replace_alpha_ents(
                 IF code = 0 THEN s ELSE replace(s, ent, <<unichr(code)>>),
                 Tail(ents))

\* hw2.py:460-485, as the method of Tokenizer that tokenize calls
html2unicode(s) ==
    LET s1 == replace_digit_ents(s, findall(html_entity_digit_re, s))
        s2 == replace_alpha_ents(s1, SelectSeq(findall(html_entity_alpha_re, s1),
                                               LAMBDA ent : ent # amp))
    IN  replace(s2, amp, <<" ", "a", "n", "d", " ">>)

\* hw2.py:492  tok = Tokenizer(preserve_case=False)
preserve_case == FALSE

\* hw2.py:421-439: the list returned, or the exception that leaves the method
tokenize(s) ==
    LET u == to_unicode(s) IN
    IF u.exc # "none" THEN u
    ELSE LET words == findall(word_re, html2unicode(u.val)) IN
         IF ~preserve_case
         THEN Return([j \in 1..Len(words) |->
                 IF search(emoticon_re, words[j]) THEN words[j] ELSE lower_str(words[j])])
         ELSE Return(words)

----------------------------------------------------------------------------
(* Bounded inputs                                                           *)

\* the strings over alphabet A of length at most k
RECURSIVE StringsUpTo(_, _)
StringsUpTo(A, k) ==
    IF k = 0 THEN {<<>>}
    ELSE LET shorter == StringsUpTo(A, k - 1) IN
         shorter \cup {Append(s, c) : s \in {t \in shorter : Len(t) = k - 1}, c \in A}

\* the greatest length of an argument of myfilter
MaxFilterLen == 3
\* the characters of the arguments of myfilter: a lower and an upper case
\* letter, a digit, a space, a tab, punctuation, and outside ASCII an upper
\* case letter, a digit and a no-break space
FilterChars == {"a", "Q", "7", " ", "\t", ".", "U+00C9", "U+00B2", "U+00A0"}
FilterInputs == StringsUpTo(FilterChars, MaxFilterLen)

\* the greatest length of an argument of mysplit
MaxSplitLen == 6
\* the characters of the arguments of mysplit
SplitChars == {"a", "b", " ", "\n"}
SplitInputs == StringsUpTo(SplitChars, MaxSplitLen)

\* hw1.py:100  range(1,6)
MinOrder == 1
MaxOrder == 5
Orders == MinOrder..MaxOrder

----------------------------------------------------------------------------
(* hw1.py: the script                                                       *)

\* s.split(sep) with a separator: the pieces between the occurrences of sep,
\* found from the left; empty pieces are kept.
RECURSIVE split_sep_loop(_, _, _, _, _)
split_sep_loop(s, sep, i, cur, parts) ==
    IF i > Len(s) THEN Append(parts, cur)
    ELSE IF i + Len(sep) - 1 <= Len(s) /\ SubSeq(s, i, i + Len(sep) - 1) = sep
    THEN split_sep_loop(s, sep, i + Len(sep), <<>>, Append(parts, cur))
    ELSE split_sep_loop(s, sep, i + 1, Append(cur, s[i]), parts)

split_sep(s, sep) == split_sep_loop(s, sep, 1, <<>>, <<>>)

\* hw1.py:57  freq_ngramRDD.take(5), and range(5) at hw1.py:60
TopK == 5

\* the example of the homework statement, hw1.py:13
Example ==
    <<"T","o"," ","k","n","o","w"," ","y","o","u"," ","i","s"," ",
      "t","o"," ","l","o","v","e"," ","y","o","u",".">>

\* eleven words of period five: at least five distinct n-grams for every
\* order of hw1.py:100
Periodic ==
    <<"a"," ","b"," ","c"," ","d"," ","e"," ","a"," ","b"," ","c"," ","d"," ","e"," ","a">>

\* six distinct words, one of them twice: more n-grams than printOutput
\* takes, with unequal counts
Skewed == <<"a"," ","a"," ","b"," ","c"," ","d"," ","e"," ","f">>

\* the greatest length of a paragraph drawn from ParChars
MaxParLen == 4
ParChars == {"a", "B", ".", " "}
TextRDDs ==
    {<<p>> : p \in StringsUpTo(ParChars, MaxParLen)}
    \cup {<<Example>>, <<Periodic>>, <<Skewed>>,
          <<<<"a"," ","B",".",".","a">>, <<"b"," ","a","."," ","A"," ","b">>>>}
----------------------------------------------------------------------------
(* Calls of the pure functions                                              *)

FnIdle == fn = "none" /\ arg_s = <<>> /\ arg_n = 0 /\ ret = <<>>

Hw1Idle ==
    /\ textRDD = <<>> /\ sentences = <<>> /\ n = 0
    /\ filtered_sentences = <<>> /\ freq_ngramRDD = {} /\ top = <<>>
    /\ pc1 = "idle"

Hw2Idle ==
    /\ contents = <<>> /\ mypickle = <<>> /\ usertweets = <<>> /\ users_count = 0
    /\ result = <<>> /\ mytokens = {} /\ inter_usertweets = <<>> /\ tokens = {}
    /\ top20 = <<>> /\ dic = <<>> /\ interresults = <<>> /\ group_i = 0
    /\ printed = <<>> /\ err = "none" /\ pc2 = "idle"

AggIdle ==
    /\ agg_pairs = <<>> /\ agg_shards = <<>> /\ agg_partials = <<>>
    /\ agg_result = {} /\ pc3 = "idle"

CallMyfilter ==
    /\ fn = "none"
    /\ \E s \in FilterInputs :
        /\ fn' = "myfilter" /\ arg_s' = s /\ arg_n' = 0
        /\ ret' = myfilter(s)
        /\ UNCHANGED <<hw1vars, hw2vars, aggvars>>

CallMysplit ==
    /\ fn = "none"
    /\ \E s \in SplitInputs, nn \in Orders :
        /\ fn' = "mysplit" /\ arg_s' = s /\ arg_n' = nn
        /\ ret' = mysplit(s, nn)
        /\ UNCHANGED <<hw1vars, hw2vars, aggvars>>

InitFn == FnIdle /\ Hw1Idle /\ Hw2Idle /\ AggIdle
NextFn == CallMyfilter \/ CallMysplit
SpecFn == InitFn /\ [][NextFn]_vars

\* the greatest length of a text drawn from TokChars
MaxTokLen == 3
\* the characters of the texts given to the tokenizer: the parts of an
\* emoticon, letters of both cases, a space, the start of an entity, and a
\* letter outside ASCII
TokChars == {":", "D", "a", "H", " ", "&", "U+00E9"}
\* texts with a URL, with entities that are decoded, that are out of range
\* or unknown, and with entities next to letters outside ASCII
TokSamples ==
    { <<"h","t","t","p",":","/","/","T",".","c","o","/","A","b">>,
      <<"G","o"," ",":","D">>,
      <<"&","#","2","3","3",";">>,
      <<"&","#","1","1","1","4","1","1","2",";">>,
      <<"&","b","o","g","u","s",";">>,
      <<"a","&","a","m","p",";","B">>,
      <<"U+00E9"," ","&","l","t",";">>,
      <<"U+00C9","&","#","6","5",";">> }
TokInputs == StringsUpTo(TokChars, MaxTokLen) \cup TokSamples

\* hw2.py:520, 561  tok.tokenize(x[1].encode('utf-8'))
CallTokenize ==
    /\ fn = "none"
    /\ \E text \in TokInputs :
        /\ fn' = "tokenize" /\ arg_s' = encode_utf8(text) /\ arg_n' = 0
        /\ ret' = tokenize(encode_utf8(text))
        /\ UNCHANGED <<hw1vars, hw2vars, aggvars>>

NextTok == CallTokenize
SpecTok == InitFn /\ [][NextTok]_vars

\* hw1.py:44
Sentences ==
    /\ pc1 = "sentences"
    /\ sentences' = flatten([j \in 1..Len(textRDD) |-> split_sep(textRDD[j], <<".", " ">>)])
    /\ pc1' = "for"
    /\ UNCHANGED <<textRDD, n, filtered_sentences, freq_ngramRDD, top, fnvars, hw2vars, aggvars>>

\* hw1.py:100  for n in range(1,6); printOutput has returned and its local
\* variable top is gone.
ForNext ==
    /\ pc1 = "for"
    /\ IF n = MaxOrder
       THEN pc1' = "done" /\ n' = n
       ELSE pc1' = "body" /\ n' = (IF n = 0 THEN MinOrder ELSE n + 1)
    /\ top' = <<>>
    /\ UNCHANGED <<textRDD, sentences, filtered_sentences, freq_ngramRDD, fnvars, hw2vars, aggvars>>

\* hw1.py:103  the (word, 1) pairs handed to reduceByKey
ngram_pairs(filtered, nn) ==
    LET ngrams == flatten([j \in 1..Len(filtered) |-> mysplit(filtered[j], nn)])
    IN  [j \in 1..Len(ngrams) |-> <<ngrams[j], 1>>]

\* hw1.py:102
filter_sentences(ss) == [j \in 1..Len(ss) |-> myfilter(ss[j])]

\* hw1.py:103  the elements of freq_ngramRDD
freq_ngrams(filtered, nn) == items(reduceByKey("add", ngram_pairs(filtered, nn)))

\* hw1.py:102-103.  An RDD is computed when a job asks for it: freq_ngramRDD
\* holds the elements, and the job of printOutput decides the order in which
\* sortBy leaves those with equal counts.
LoopBody ==
    /\ pc1 = "body"
    /\ filtered_sentences' = filter_sentences(sentences)
    /\ freq_ngramRDD' = freq_ngrams(filtered_sentences', n)
    /\ pc1' = "print"
    /\ UNCHANGED <<textRDD, sentences, n, top, fnvars, hw2vars, aggvars>>

\* hw1.py:104 and 56-61: printOutput takes five elements and prints
\* top[0..4]; top[i] raises IndexError when the RDD holds fewer than five
\* n-grams, and the script ends there.
printOutput ==
    /\ pc1 = "print"
    /\ top' \in {take(sorted, TopK) : sorted \in sortBy_negcount(freq_ngramRDD)}
    /\ pc1' = IF Len(top') < TopK THEN "IndexError" ELSE "for"
    /\ UNCHANGED <<textRDD, sentences, n, filtered_sentences, freq_ngramRDD, fnvars, hw2vars, aggvars>>

InitHw1 ==
    /\ FnIdle /\ Hw2Idle /\ AggIdle
    /\ textRDD \in TextRDDs
    /\ sentences = <<>> /\ n = 0
    /\ filtered_sentences = <<>> /\ freq_ngramRDD = {} /\ top = <<>>
    /\ pc1 = "sentences"
NextHw1 == Sentences \/ ForNext \/ LoopBody \/ printOutput
SpecHw1 == InitHw1 /\ [][NextHw1]_vars

----------------------------------------------------------------------------
(* hw2.py: the script                                                       *)

(* A line of the input is modelled by what ujson.loads makes of it: a JSON  *)
(* value [t, v] with t its type and v its content, or NotJson for a line    *)
(* that is not JSON.  A user id is a string of decimal digits, modelled by  *)
(* the number it spells.                                                    *)
NotJson   == [t |-> "invalid", v |-> <<>>]
Null      == [t |-> "null", v |-> <<>>]
Arr       == [t |-> "arr", v |-> <<>>]
Str(s)    == [t |-> "str", v |-> s]
Id(u)     == [t |-> "id", v |-> u]
Obj(f)    == [t |-> "obj", v |-> f]

\* a well-formed tweet of user u with the given text
Tweet(u, text) == Obj([user |-> Obj([id_str |-> Id(u)]), text |-> Str(text)])

\* hw2.py:563  .filter(lambda x:x[1] >= 100)
Threshold == 100
\* hw2.py:216, 686  the group of the users that mypickle does not hold
DefaultGroup == 7
\* hw2.py:700  .partitionBy(8)
NumPartitions == 8
\* hw2.py:568  tokens.take(20)
Top20 == 20
\* hw2.py:707  temp.take(10)
Top10 == 10


\* hw2.py:152-159.  ujson.loads raises ValueError for a line that is not
\* JSON; json_object.keys() raises AttributeError for a JSON value that is
\* not an object.
safe_parse(raw_json) ==
    IF raw_json.t = "invalid" THEN Return(<<>>)
    ELSE IF raw_json.t # "obj" THEN Raise("AttributeError")
    ELSE IF "user" \notin DOMAIN raw_json.v THEN Return(<<>>)
    ELSE Return(<<raw_json>>)

\* hw2.py:162  lambda x:(x['user']['id_str'], x['text'])
user_text(x) ==
    IF x.v["user"].t # "obj" THEN Raise("TypeError")
    ELSE IF "id_str" \notin DOMAIN x.v["user"].v THEN Raise("KeyError")
    ELSE IF "text" \notin DOMAIN x.v THEN Raise("KeyError")
    ELSE Return(<<x.v["user"].v["id_str"].v, x.v["text"].v>>)

\* hw2.py:162  what flatMap(safe_parse).map(...) makes of one line: no pair,
\* one pair, or an exception
line_pairs(line) ==
    LET parsed == safe_parse(line) IN
    IF parsed.exc # "none" THEN Raise(parsed.exc)
    ELSE IF parsed.val = <<>> THEN Return(<<>>)
    ELSE LET pair == user_text(parsed.val[1]) IN
         IF pair.exc # "none" THEN Raise(pair.exc)
         ELSE Return(<<pair.val>>)

\* hw2.py:162  usertweets; the first exception ends the job
usertweets_of(lines) ==
    LET each    == [j \in 1..Len(lines) |-> line_pairs(lines[j])]
        failing == {j \in 1..Len(lines) : each[j].exc # "none"}
    IN  IF failing # {}
        THEN Raise(each[CHOOSE j \in failing : \A q \in failing : j <= q].exc)
        ELSE Return(flatten([j \in 1..Len(lines) |-> each[j].val]))

\* help1 with the users outside the table put into group 0
help1_group0(x) ==
    IF x[1] \in DOMAIN mypickle THEN <<mypickle[x[1]], 1>> ELSE <<0, 1>>

\* hw2.py:212-216
help1(x) ==
    IF x[1] \in DOMAIN mypickle THEN <<mypickle[x[1]], 1>> ELSE <<DefaultGroup, 1>>

\* .sortByKey() of a reduced RDD with number keys
RECURSIVE sortByKey(_)
sortByKey(S) ==
    IF S = {} THEN <<>>
    ELSE LET x == CHOOSE y \in S : \A z \in S : y[1] <= z[1]
         IN  <<x>> \o sortByKey(S \ {x})

\* hw2.py:218
result_of(ut) ==
    sortByKey(items(reduceByKey("add", [j \in 1..Len(ut) |-> help1(ut[j])])))

\* the keys of a pair RDD with number keys, in ascending order; the order
\* in which Spark hands the elements on is open, and no count depends on it
keysOf(table) ==
    LET S == DOMAIN table IN
    [j \in 1..Cardinality(S) |->
        CHOOSE x \in S : Cardinality({y \in S : y < x}) = j - 1]

\* list(x) of a set x: its elements in some order.  What the script computes
\* from the list (counts by key) does not depend on that order.
RECURSIVE list(_)
list(S) ==
    IF S = {} THEN <<>>
    ELSE LET x == CHOOSE y \in S : TRUE IN <<x>> \o list(S \ {x})

\* tok.tokenize(x[1].encode('utf-8')) for every text of the tweets: the pairs
\* <<text, tokens>>
tokenized(ut) ==
    {<<text, tokenize(encode_utf8(text))>> : text \in {ut[j][2] : j \in 1..Len(ut)}}

\* the tokens of a text in tokenized(ut)
tokensOf(toks, text) == (CHOOSE p \in toks : p[1] = text)[2].val

\* the exceptions that tok.tokenize raises on the texts of the tweets
raised(ut) == {p[2].exc : p \in tokenized(ut)} \ {"none"}

\* hw2.py:520
mytokens_of(ut) ==
    LET toks == tokenized(ut) IN UNION {Range(p[2].val) : p \in toks}

\* inter_usertweets with the token lists concatenated instead of the sets
\* united: a token counts once for each time a user wrote it
inter_usertweets_concat(ut) ==
    LET toks == tokenized(ut)
        uids == {ut[j][1] : j \in 1..Len(ut)}
    IN  [u \in uids |->
            flatten([j \in 1..Len(ut) |-> IF ut[j][1] = u THEN tokensOf(toks, ut[j][2]) ELSE <<>>])]

\* hw2.py:561
inter_usertweets_of(ut) ==
    LET toks == tokenized(ut)
        reduced == reduceByKey("union",
                       [j \in 1..Len(ut) |-> <<ut[j][1], Range(tokensOf(toks, ut[j][2]))>>])
    IN  [u \in DOMAIN reduced |-> list(reduced[u])]

\* hw2.py:563 up to reduceByKey: the number of users of each token
token_counts(inter) ==
    LET users == keysOf(inter)
        words == flatten([j \in 1..Len(users) |-> inter[users[j]]])
    IN  reduceByKey("add", [j \in 1..Len(words) |-> <<words[j], 1>>])

\* tokens with the filter x[1] > 100
tokens_above(inter) ==
    {e \in items(token_counts(inter)) : e[2] > Threshold}

\* hw2.py:563  the elements of tokens
tokens_of(inter) ==
    {e \in items(token_counts(inter)) : e[2] >= Threshold}

\* hw2.py:680  tokens.collectAsMap()
dic_of(toks) == [k \in {e[1] : e \in toks} |-> (CHOOSE e \in toks : e[1] = k)[2]]

\* hw2.py:682-687
help4(uid) == IF uid \in DOMAIN mypickle THEN mypickle[uid] ELSE DefaultGroup

\* get_rel_popularity with its arguments exchanged
get_rel_popularity_swapped(c_k, c_all) ==
    IF c_k = 0 THEN Raise("ZeroDivisionError")
    ELSE IF c_all = 0 THEN Raise("ValueError")
    ELSE Return([c_k |-> c_all, c_all |-> c_k])

\* hw2.py:494-495  log(1.0 * c_k / c_all) / log(2).  The value is kept as the
\* pair of counts it is the logarithm of: the quotient of two counts below
\* 2^26 is the same float exactly when the fractions are equal, and log is
\* increasing, so the values compare as the fractions do.  The division
\* raises ZeroDivisionError for c_all = 0 and log raises ValueError for 0.
get_rel_popularity(c_k, c_all) ==
    IF c_all = 0 THEN Raise("ZeroDivisionError")
    ELSE IF c_k = 0 THEN Raise("ValueError")
    ELSE Return([c_k |-> c_k, c_all |-> c_all])

\* p < q, p = q for two values of get_rel_popularity
pop_less(p, q) == p.c_k * q.c_all < q.c_k * p.c_all
pop_equal(p, q) == p.c_k * q.c_all = q.c_k * p.c_all

\* a < b for two unicode strings: by code point, a proper prefix first
RECURSIVE str_less(_, _)
str_less(a, b) ==
    IF b = <<>> THEN FALSE
    ELSE IF a = <<>> THEN TRUE
    ELSE IF ord(Head(a)) # ord(Head(b)) THEN ord(Head(a)) < ord(Head(b))
    ELSE str_less(Tail(a), Tail(b))

\* hw2.py:700 up to reduceByKey: the number of users of each (group, token)
group_counts(inter, d) ==
    LET users == keysOf(inter)
        pairs == flatten([j \in 1..Len(users) |->
                     LET kept == SelectSeq(inter[users[j]], LAMBDA w : w \in DOMAIN d)
                     IN  [q \in 1..Len(kept) |-> <<<<help4(users[j]), kept[q]>>, 1>>]])
    IN  reduceByKey("add", pairs)

\* hw2.py:700  the records (group, (token, popularity)), or the exception
\* that get_rel_popularity raises
scored(inter, d) ==
    LET counts == group_counts(inter, d)
        pop(key) == get_rel_popularity(counts[key], d[key[2]])
    IN  IF \E key \in DOMAIN counts : pop(key).exc # "none"
        THEN Raise((pop(CHOOSE key \in DOMAIN counts : pop(key).exc # "none")).exc)
        ELSE Return({<<key[1], <<key[2], pop(key).val>>>> : key \in DOMAIN counts})

\* partitionBy that spreads the keys over one partition less and leaves the
\* last partition empty
partitionBy_short(records, parts) ==
    [b \in 0..(parts - 1) |-> {r \in records : r[1] % (parts - 1) = b}]

\* portable_hash of a small number is the number: partitionBy(8) puts the
\* record with key g into partition g % 8
partitionBy(records, parts) ==
    [b \in 0..(parts - 1) |-> {r \in records : r[1] % parts = b}]

\* the sort key (-x[1], x[0]) of y comes before that of x, with the tie broken
\* by the greater token
key_less_desc(x, y) ==
    \/ pop_less(y[2], x[2])
    \/ pop_equal(x[2], y[2]) /\ str_less(y[1], x[1])

\* hw2.py:706  the sort key (-x[1], x[0]) of x is less than that of y
key_less(x, y) ==
    \/ pop_less(y[2], x[2])
    \/ pop_equal(x[2], y[2]) /\ str_less(x[1], y[1])

\* hw2.py:706  .sortBy(lambda x: (-x[1], x[0])) of (token, popularity) pairs
RECURSIVE sortBy_key(_)
sortBy_key(S) ==
    IF S = {} THEN <<>>
    ELSE LET x == CHOOSE y \in S : \A z \in S \ {y} : key_less(y, z)
         IN  <<x>> \o sortBy_key(S \ {x})

\* hw2.py:705  range(8)
NumGroups == 8
\* hw2.py:189  the partition ID is an integer between 0-6
NumPickleGroups == 7

\* hw2.py:162-184  usertweets, computed by the first job that needs it
\* (users.count()); an exception raised for a line ends the job and the script.
Parse ==
    /\ pc2 = "parse"
    /\ LET r == usertweets_of(contents) IN
       IF r.exc # "none"
       THEN /\ err' = r.exc /\ pc2' = "failed"
            /\ UNCHANGED <<usertweets, users_count>>
       ELSE /\ usertweets' = r.val
            /\ users_count' = Cardinality({r.val[j][1] : j \in 1..Len(r.val)})
            /\ err' = err /\ pc2' = "posts"
    /\ UNCHANGED <<contents, mypickle, result, mytokens, inter_usertweets, tokens, top20,
                   dic, interresults, group_i, printed, fnvars, hw1vars, aggvars>>

\* hw2.py:218-246
PostCounts ==
    /\ pc2 = "posts"
    /\ result' = result_of(usertweets)
    /\ pc2' = "mytokens"
    /\ UNCHANGED <<contents, mypickle, usertweets, users_count, mytokens, inter_usertweets,
                   tokens, top20, dic, interresults, group_i, printed, err, fnvars, hw1vars, aggvars>>

\* hw2.py:520-521
MyTokens ==
    /\ pc2 = "mytokens"
    /\ LET excs == raised(usertweets) IN
       IF excs # {}
       THEN /\ err' \in excs /\ pc2' = "failed"
            /\ mytokens' = mytokens
       ELSE /\ mytokens' = mytokens_of(usertweets)
            /\ err' = err /\ pc2' = "inter"
    /\ UNCHANGED <<contents, mypickle, usertweets, users_count, result, inter_usertweets,
                   tokens, top20, dic, interresults, group_i, printed, fnvars, hw1vars, aggvars>>

\* hw2.py:561
InterUserTweets ==
    /\ pc2 = "inter"
    /\ inter_usertweets' = inter_usertweets_of(usertweets)
    /\ pc2' = "tokens"
    /\ UNCHANGED <<contents, mypickle, usertweets, users_count, result, mytokens,
                   tokens, top20, dic, interresults, group_i, printed, err, fnvars, hw1vars, aggvars>>

\* hw2.py:563-567
Tokens ==
    /\ pc2 = "tokens"
    /\ tokens' = tokens_of(inter_usertweets)
    /\ pc2' = "print_tokens"
    /\ UNCHANGED <<contents, mypickle, usertweets, users_count, result, mytokens,
                   inter_usertweets, top20, dic, interresults, group_i, printed, err,
                   fnvars, hw1vars, aggvars>>

\* hw2.py:568  print_tokens(tokens.take(20)); sortBy(lambda x: x[1], False)
\* leaves the order of the tokens with equal counts open
PrintTokens ==
    /\ pc2 = "print_tokens"
    /\ top20' \in {take(sorted, Top20) : sorted \in sortBy_negcount(tokens)}
    /\ pc2' = "dic"
    /\ UNCHANGED <<contents, mypickle, usertweets, users_count, result, mytokens,
                   inter_usertweets, tokens, dic, interresults, group_i, printed, err,
                   fnvars, hw1vars, aggvars>>

\* hw2.py:680
Dic ==
    /\ pc2 = "dic"
    /\ dic' = dic_of(tokens)
    /\ pc2' = "interresults"
    /\ UNCHANGED <<contents, mypickle, usertweets, users_count, result, mytokens,
                   inter_usertweets, tokens, top20, interresults, group_i, printed, err,
                   fnvars, hw1vars, aggvars>>

\* hw2.py:700
InterResults ==
    /\ pc2 = "interresults"
    /\ LET r == scored(inter_usertweets, dic) IN
       IF r.exc # "none"
       THEN /\ err' = r.exc /\ pc2' = "failed"
            /\ UNCHANGED interresults
       ELSE /\ interresults' = partitionBy(r.val, NumPartitions)
            /\ err' = err /\ pc2' = "report"
    /\ group_i' = 0
    /\ UNCHANGED <<contents, mypickle, usertweets, users_count, result, mytokens,
                   inter_usertweets, tokens, top20, dic, printed, fnvars, hw1vars, aggvars>>

\* hw2.py:706-707  what is printed for interresults[i]
report_of(bucket) == take(sortBy_key({r[2] : r \in bucket}), Top10)

\* hw2.py:705-707  one turn of the loop "for i in range(8)"
Report ==
    /\ pc2 = "report"
    /\ printed' = Append(printed, <<group_i, report_of(interresults[group_i])>>)
    /\ group_i' = group_i + 1
    /\ pc2' = IF group_i + 1 = NumGroups THEN "done" ELSE "report"
    /\ UNCHANGED <<contents, mypickle, usertweets, users_count, result, mytokens,
                   inter_usertweets, tokens, top20, dic, interresults, err, fnvars, hw1vars, aggvars>>

----------------------------------------------------------------------------
(* Bounded inputs of hw2.py                                                 *)

\* the lines a small input is made of: not JSON, a tweet without text, a
\* limit notice (an object without user), tweets of the users 1, 2 and 9,
\* objects whose user lacks the id_str or is null, and JSON that is no object
SmallLines ==
    << NotJson,
       Obj([user |-> Obj([id_str |-> Id(1)])]),
       Obj([limit |-> Obj([track |-> Null])]),
       Tweet(1, <<"a", " ", "b", " ", "a">>),
       Tweet(2, <<"B">>),
       Tweet(9, <<"a">>),
       Obj([user |-> Obj(<<>>), text |-> Str(<<"a">>)]),
       Obj([user |-> Null, text |-> Str(<<"a">>)]),
       Arr >>

\* the greatest number of lines of a small input
MaxLines == 2

\* the tweets of the users lo..hi, one each, all with the same text
Crowd(lo, hi, text) == [j \in 1..(hi - lo + 1) |-> Tweet(lo + j - 1, text)]

\* users 1..a write "x y x", the first r of them write "X" as well, and user
\* a+1 writes "y z": x has a users, y has a+1, z has one
ThresholdCorpus(a, r) ==
    Crowd(1, a, <<"x", " ", "y", " ", "x">>)
    \o Crowd(1, r, <<"X">>)
    \o Crowd(a + 1, a + 1, <<"y", " ", "z">>)

\* twelve tokens, more than a report prints
TopTokens ==
    << <<"d">>, <<"a", "b">>, <<"a">>, <<"c">>, <<"b">>, <<"b", "a">>,
       <<"e">>, <<"f">>, <<"g">>, <<"h">>, <<"i">>, <<"j">> >>
\* the number of users beyond the first Threshold in TopCorpus
Extras == 10

\* users 1..Threshold write all of TopTokens; user Threshold+j writes the
\* first j of them
TopCorpus ==
    Crowd(1, Threshold, join(<<" ">>, TopTokens))
    \o [j \in 1..Extras |->
          Tweet(Threshold + j, join(<<" ">>, slice(TopTokens, 0, j)))]

\* twenty-two tokens, more than print_tokens is given of the global table
WideTokens ==
    << <<"a">>, <<"b">>, <<"c">>, <<"d">>, <<"e">>, <<"f">>, <<"g">>, <<"h">>,
       <<"i">>, <<"j">>, <<"k">>, <<"l">>, <<"m">>, <<"n">>, <<"o">>, <<"p">>,
       <<"q">>, <<"r">>, <<"s">>, <<"t">>, <<"u">>, <<"v">> >>

\* the tweets of user u with the first j of WideTokens: one tweet with the
\* first half of them at most, and one with the others
WideTweets(u, j) ==
    LET half == Len(WideTokens) \div 2 IN
    IF j <= half THEN <<Tweet(u, join(<<" ">>, slice(WideTokens, 0, j)))>>
    ELSE << Tweet(u, join(<<" ">>, slice(WideTokens, 0, half))),
            Tweet(u, join(<<" ">>, slice(WideTokens, half, j))) >>

\* users 1..Threshold write all of WideTokens; user Threshold+j writes the
\* first j of them, for all j but the last three: the last three tokens
\* have Threshold users each, the others more, no two of them as many
WideCorpus ==
    flatten([u \in 1..Threshold |-> WideTweets(u, Len(WideTokens))])
    \o flatten([j \in 1..(Len(WideTokens) - 3) |-> WideTweets(Threshold + j, j)])

\* the size of mypickle tried with WideCorpus
WidePickleSize == 50

\* mypickle holds the users 1..k, user u in group u % 7
pickle(k) == [u \in 1..k |-> u % NumPickleGroups]
\* the sizes of mypickle tried with a small input and with a crowd
SmallPickleSizes == {0, 2}
CrowdPickleSizes == {0, 50, 150}

InitHw2 ==
    /\ FnIdle /\ Hw1Idle /\ AggIdle
    /\ \/ /\ \E k \in SmallPickleSizes : mypickle = pickle(k)
          /\ \E ix \in StringsUpTo(1..Len(SmallLines), MaxLines) :
                 contents = [j \in 1..Len(ix) |-> SmallLines[ix[j]]]
       \/ /\ \E k \in CrowdPickleSizes : mypickle = pickle(k)
          /\ \/ \E a \in {Threshold - 1, Threshold}, r \in {0, 2} :
                    contents = ThresholdCorpus(a, r)
             \/ contents = TopCorpus
       \/ /\ mypickle = pickle(WidePickleSize)
          /\ contents = WideCorpus
    /\ usertweets = <<>> /\ users_count = 0
    /\ result = <<>> /\ mytokens = {} /\ inter_usertweets = <<>> /\ tokens = {}
    /\ top20 = <<>> /\ dic = <<>> /\ interresults = <<>> /\ group_i = 0
    /\ printed = <<>> /\ err = "none" /\ pc2 = "parse"

NextHw2 ==
    \/ Parse \/ PostCounts \/ MyTokens \/ InterUserTweets \/ Tokens
    \/ PrintTokens \/ Dic \/ InterResults \/ Report

SpecHw2 == InitHw2 /\ [][NextHw2]_vars

\* either script, run on its own
InitScripts == InitHw1 \/ InitHw2
NextScripts == NextHw1 \/ NextHw2
SpecScripts == InitScripts /\ [][NextScripts]_vars

----------------------------------------------------------------------------
(* reduceByKey as Spark runs it (hw1.py:103, hw2.py:561-563, 700): the      *)
(* elements lie in partitions; each partition folds the values of a key in  *)
(* the order of its elements, and the partitions' tables are merged two at  *)
(* a time in an order that Spark chooses.                                   *)

\* the greatest number of elements of the RDD
MaxPairs == 4
\* the number of partitions
NumShards == 3
\* the keys of the elements
AggKeys == {"a", "b"}

\* hw1.py:103, hw2.py:563  .map(lambda word: (word, 1)) of up to MaxPairs words
AggInputs ==
    {[j \in 1..Len(ks) |-> <<ks[j], 1>>] : ks \in StringsUpTo(AggKeys, MaxPairs)}

\* a table with the value of key k set to v
withKey(table, k, v) ==
    [x \in DOMAIN table \cup {k} |-> IF x = k THEN v ELSE table[x]]

\* one partition's table: the first value of a key is kept, each later one
\* is combined with op(kept, value)
RECURSIVE combineByKey(_, _, _)
combineByKey(op, pairs, table) ==
    IF pairs = <<>> THEN table
    ELSE LET k == Head(pairs)[1]
             v == Head(pairs)[2]
         IN  combineByKey(op, Tail(pairs),
                 IF k \in DOMAIN table THEN withKey(table, k, apply(op, table[k], v))
                 ELSE withKey(table, k, v))

\* two tables merged: op(left, right) for a key of both
mergeCombiners(op, left, right) ==
    [k \in DOMAIN left \cup DOMAIN right |->
        IF k \in DOMAIN left /\ k \in DOMAIN right THEN apply(op, left[k], right[k])
        ELSE IF k \in DOMAIN left THEN left[k] ELSE right[k]]

\* the elements of the RDD are laid out in partitions, each keeping the
\* order of its elements
Shard ==
    /\ pc3 = "shard"
    /\ \E part \in [1..Len(agg_pairs) -> 1..NumShards] :
          agg_shards' =
              [sh \in 1..NumShards |->
                  LET at == SelectSeq([j \in 1..Len(agg_pairs) |-> j],
                                      LAMBDA j : part[j] = sh)
                  IN  [q \in 1..Len(at) |-> agg_pairs[at[q]]]]
    /\ pc3' = "combine"
    /\ UNCHANGED <<agg_pairs, agg_partials, agg_result, fnvars, hw1vars, hw2vars>>

\* every partition builds its table
Combine ==
    /\ pc3 = "combine"
    /\ agg_partials' =
          [sh \in 1..NumShards |-> combineByKey("add", agg_shards[sh], <<>>)]
    /\ pc3' = "merge"
    /\ UNCHANGED <<agg_pairs, agg_shards, agg_result, fnvars, hw1vars, hw2vars>>

\* two of the tables are merged, in either order
Merge ==
    /\ pc3 = "merge"
    /\ Len(agg_partials) > 1
    /\ \E a, b \in 1..Len(agg_partials) :
          /\ a # b
          /\ LET merged == mergeCombiners("add", agg_partials[a], agg_partials[b])
                 rest   == SelectSeq([j \in 1..Len(agg_partials) |-> j],
                                     LAMBDA j : j # a /\ j # b)
             IN  agg_partials' = <<merged>> \o [q \in 1..Len(rest) |-> agg_partials[rest[q]]]
    /\ UNCHANGED <<agg_pairs, agg_shards, agg_result, pc3, fnvars, hw1vars, hw2vars>>

\* the last table is the reduced RDD
Collect ==
    /\ pc3 = "merge"
    /\ Len(agg_partials) = 1
    /\ agg_result' = items(agg_partials[1])
    /\ pc3' = "done"
    /\ UNCHANGED <<agg_pairs, agg_shards, agg_partials, fnvars, hw1vars, hw2vars>>

InitAgg ==
    /\ FnIdle /\ Hw1Idle /\ Hw2Idle
    /\ agg_pairs \in AggInputs
    /\ agg_shards = <<>> /\ agg_partials = <<>> /\ agg_result = {}
    /\ pc3 = "shard"

NextAgg == Shard \/ Combine \/ Merge \/ Collect

SpecAgg == InitAgg /\ [][NextAgg]_vars

----------------------------------------------------------------------------
(* Properties of mysplit and myfilter (SpecFn)                              *)

Max(a, b) == IF a >= b THEN a ELSE b

\* the number of tokens of s: the positions where a run of non-whitespace
\* characters starts
wordCount(s) ==
    Cardinality({j \in 1..Len(s) : ~isspace(s[j]) /\ (j = 1 \/ isspace(s[j - 1]))})

\* C7  N-gram count conservation: for a segment of w tokens and an order
\* n >= 1, mysplit returns exactly max(0, w-n+1) n-grams, the empty sequence
\* when w < n.
C7_CountConservation ==
    fn = "mysplit" =>
        /\ Len(ret) = Max(0, wordCount(arg_s) - arg_n + 1)
        /\ (wordCount(arg_s) < arg_n => ret = <<>>)

\* mysplit was called with fewer tokens than the order and returned nothing
C7_Witness ==
    /\ fn = "mysplit" /\ arg_n = 3 /\ wordCount(arg_s) = 2 /\ ret = <<>>

\* C8  N-gram window content and order: the i-th n-gram is tokens i..i+n-1 of
\* the segment joined by single spaces: cut at every single space it gives
\* back exactly those n tokens, each non-empty and free of whitespace, so
\* there is no leading, trailing or doubled space; windows come left to right.
C8_WindowContent ==
    fn = "mysplit" =>
        LET words == split(arg_s) IN
        \A j \in 1..Len(ret) :
            LET pieces == split_sep(ret[j], <<" ">>) IN
            /\ j + arg_n - 1 <= Len(words)
            /\ pieces = SubSeq(words, j, j + arg_n - 1)
            /\ Len(pieces) = arg_n
            /\ \A q \in 1..Len(pieces) :
                  pieces[q] # <<>> /\ \A c \in Range(pieces[q]) : ~isspace(c)
            /\ ret[j][1] # " " /\ ret[j][Len(ret[j])] # " "

\* two bigrams came out of a segment with a newline and a doubled space
C8_Witness ==
    /\ fn = "mysplit" /\ arg_n = 2
    /\ arg_s = <<"a", "\n", "b", " ", " ", "a">>
    /\ ret = << <<"a", " ", "b">>, <<"b", " ", "a">> >>

\* C9  Normalizer character mapping: myfilter returns a string of the same
\* length; position i holds the input character if it is a digit, its lower
\* case form if it is a letter, a space otherwise; so the output holds only
\* lower case letters, digits and spaces, and spaces are not collapsed.
C9_CharacterMapping ==
    fn = "myfilter" =>
        /\ Len(ret) = Len(arg_s)
        /\ \A j \in 1..Len(ret) :
              /\ ret[j] = (IF isdigit(arg_s[j]) THEN arg_s[j]
                           ELSE IF isalpha(arg_s[j]) THEN lower(arg_s[j])
                           ELSE " ")
              /\ \/ ret[j] = " "
                 \/ isdigit(ret[j])
                 \/ isalpha(ret[j]) /\ ~isupper(ret[j])

\* an upper case letter, punctuation and a tab became "q" and two spaces
C9_Witness ==
    /\ fn = "myfilter"
    /\ arg_s = <<"Q", ".", "\t">>
    /\ ret = <<"q", " ", " ">>

\* ch is a lower case letter, a digit or a space
normalized(ch) == ch = " " \/ isdigit(ch) \/ (isalpha(ch) /\ ~isupper(ch))

\* C13  Normalizer idempotence: myfilter of what myfilter returned is that
\* string again, and an argument made only of lower case letters, digits
\* and spaces is returned unchanged.
C13_Idempotence ==
    fn = "myfilter" =>
        /\ myfilter(ret) = ret
        /\ (\A j \in 1..Len(arg_s) : normalized(arg_s[j])) => ret = arg_s

\* myfilter changed every character of its argument, a letter outside ASCII
\* among them
C13_Witness ==
    /\ fn = "myfilter"
    /\ Len(arg_s) = MaxFilterLen
    /\ \A j \in 1..Len(arg_s) : ret[j] # arg_s[j]
    /\ \E j \in 1..Len(arg_s) : arg_s[j] = "U+00C9"

----------------------------------------------------------------------------
(* Properties of the script hw1.py (SpecHw1)                                *)

\* the n-grams of the corpus, sentence by sentence
grams(ss, nn) == [a \in 1..Len(ss) |-> mysplit(myfilter(ss[a]), nn)]

\* the n-gram windows of the corpus: <<sentence, position>>
windows(G) == UNION { {<<a, b>> : b \in 1..Len(G[a])} : a \in 1..Len(G) }

RECURSIVE sumCounts(_)
sumCounts(S) ==
    IF S = {} THEN 0
    ELSE LET e == CHOOSE x \in S : TRUE IN e[2] + sumCounts(S \ {e})

\* freq_ngramRDD holds the table of order n
TableReady == pc1 \in {"print", "for", "IndexError", "done"} /\ n >= MinOrder

\* C10  Frequency table exactness: the table maps each n-gram to the number
\* of times it occurs over all sentences, has one entry for each n-gram and
\* none with count 0, and its counts sum to the number of n-grams extracted;
\* the example sentence gives to:2 know:1 you:2 is:1 love:1 and six bigrams
\* of count 1.
C10_TableExact ==
    TableReady =>
        LET G == grams(sentences, n)
            W == windows(G)
            gram(w) == G[w[1]][w[2]]
        IN  /\ \A e \in freq_ngramRDD :
                  /\ e[2] = Cardinality({w \in W : gram(w) = e[1]})
                  /\ e[2] >= 1
            /\ \A w \in W : \E e \in freq_ngramRDD : e[1] = gram(w)
            /\ \A e, f \in freq_ngramRDD : e[1] = f[1] => e = f
            /\ sumCounts(freq_ngramRDD) = Cardinality(W)
            /\ (textRDD = <<Example>> /\ n = 1 =>
                  freq_ngramRDD = { <<<<"t","o">>, 2>>, <<<<"k","n","o","w">>, 1>>,
                                    <<<<"y","o","u">>, 2>>, <<<<"i","s">>, 1>>,
                                    <<<<"l","o","v","e">>, 1>> })
            /\ (textRDD = <<Example>> /\ n = 2 =>
                  freq_ngramRDD =
                    { <<<<"t","o"," ","k","n","o","w">>, 1>>,
                      <<<<"k","n","o","w"," ","y","o","u">>, 1>>,
                      <<<<"y","o","u"," ","i","s">>, 1>>,
                      <<<<"i","s"," ","t","o">>, 1>>,
                      <<<<"t","o"," ","l","o","v","e">>, 1>>,
                      <<<<"l","o","v","e"," ","y","o","u">>, 1>> })

\* the unigram table of the example sentence has been built
C10_Witness ==
    /\ pc1 = "print" /\ n = 1 /\ textRDD = <<Example>>
    /\ <<<<"y","o","u">>, 2>> \in freq_ngramRDD

----------------------------------------------------------------------------
(* Properties of the script hw2.py (SpecHw2)                                *)

\* a line is a well-formed tweet: a JSON object with a text and a user object
\* that has an id_str
wellFormed(line) ==
    /\ line.t = "obj"
    /\ "text" \in DOMAIN line.v
    /\ "user" \in DOMAIN line.v
    /\ line.v["user"].t = "obj"
    /\ "id_str" \in DOMAIN line.v["user"].v

\* the positions of the well-formed tweets in the input
validLines == {j \in 1..Len(contents) : wellFormed(contents[j])}

\* the (user.id_str, text) pairs of the well-formed lines, in input order
expectedPairs ==
    LET pairAt(j) == <<contents[j].v["user"].v["id_str"].v, contents[j].v["text"].v>>
        before(j) == Cardinality({q \in validLines : q < j})
    IN  [k \in 1..Cardinality(validLines) |->
            pairAt(CHOOSE j \in validLines : before(j) = k - 1)]

\* the group of user u: the table's value, 7 for a user the table lacks
groupOf(u) == IF u \in DOMAIN mypickle THEN mypickle[u] ELSE 7

\* the positions of the script after which usertweets, result, tokens and
\* interresults are final
ParseOver   == pc2 \notin {"idle", "parse"}
PostsReady  == pc2 \in {"mytokens", "inter", "tokens", "print_tokens", "dic",
                        "interresults", "report", "done"}
TokensReady == pc2 \in {"print_tokens", "dic", "interresults", "report", "done"}
ScoresReady == pc2 \in {"report", "done"}

\* the records (group, (token, [c_k, c_all])) of all partitions
scoreTable == UNION {interresults[b] : b \in DOMAIN interresults}

\* the tweets (positions in usertweets) whose token list holds t
tweetsWith(toks, t) ==
    {j \in 1..Len(usertweets) : t \in Range(tokensOf(toks, usertweets[j][2]))}

\* the mentions <<user, token>>: the user has a tweet that holds the token
mentions ==
    LET toks == tokenized(usertweets) IN
    UNION { {<<usertweets[j][1], t>> : t \in Range(tokensOf(toks, usertweets[j][2]))} :
            j \in 1..Len(usertweets) }

\* the distinct users with a tweet that holds t
usersOf(M, t) == {m[1] : m \in {x \in M : x[2] = t}}

\* C1  Malformed-record isolation: every line that is not JSON, or is JSON
\* without the user object, user.id_str or text, is dropped without an
\* exception, and usertweets holds exactly the (user.id_str, text) pairs of
\* the well-formed lines, as often as they occur.
C1_MalformedIsolation ==
    ParseOver => err = "none" /\ usertweets = expectedPairs

\* C2  Set semantics of mentions: the global count of a token is the number
\* of distinct users with a tweet that holds it, and its count in a group is
\* the number of those users that are in the group, however often a user
\* wrote the token.
C2_SetSemantics ==
    LET M == mentions IN
    /\ TokensReady =>
          \A e \in tokens : e[2] = Cardinality(usersOf(M, e[1]))
    /\ ScoresReady =>
          \A r \in scoreTable :
              /\ r[2][2].c_all = Cardinality(usersOf(M, r[2][1]))
              /\ r[2][2].c_k =
                    Cardinality({u \in usersOf(M, r[2][1]) : groupOf(u) = r[1]})

\* the scores are there, and some user wrote a scored token twice in one
\* tweet and again in another tweet
C2_Witness ==
    /\ ScoresReady
    /\ LET toks == tokenized(usertweets) IN
       \E r \in scoreTable : \E j, q \in tweetsWith(toks, r[2][1]) :
           /\ j # q
           /\ usertweets[j][1] = usertweets[q][1]
           /\ Len(SelectSeq(tokensOf(toks, usertweets[j][2]), LAMBDA w : w = r[2][1])) >= 2

\* C3  Popularity threshold: a token is in some group's score table exactly
\* when at least 100 distinct users wrote it, and then in the table of every
\* group with a user of it; no score is computed from a global count of 0.
C3_Threshold ==
    /\ err \notin {"ZeroDivisionError", "ValueError"}
    /\ ScoresReady =>
          LET M == mentions IN
          /\ \A t \in {m[2] : m \in M} :
                LET users == usersOf(M, t) IN
                /\ (\E r \in scoreTable : r[2][1] = t) <=> Cardinality(users) >= 100
                /\ Cardinality(users) >= 100 =>
                      \A u \in users :
                          \E r \in scoreTable : r[1] = groupOf(u) /\ r[2][1] = t
          /\ \A r \in scoreTable : r[2][2].c_all > 0

\* the scores are there; a token of 99 users is in no table and a token of
\* exactly 100 users is in one
C3_Witness ==
    /\ ScoresReady
    /\ LET M == mentions IN
       \E t1, t2 \in {m[2] : m \in M} :
           /\ Cardinality(usersOf(M, t1)) = 99
           /\ \A r \in scoreTable : r[2][1] # t1
           /\ Cardinality(usersOf(M, t2)) = 100
           /\ \E r \in scoreTable : r[2][1] = t2

\* C4  Popularity boundedness: every score is computed from a count in the
\* group that is at least 1 and at most the global count, the counts of a
\* token over the groups sum to its global count, and the score is <= 0.
C4_Boundedness ==
    ScoresReady =>
        \A r \in scoreTable :
            LET p == r[2][2]
                zero == [c_k |-> 1, c_all |-> 1]
            IN  /\ r[1] \in 0..7
                /\ 1 <= p.c_k /\ p.c_k <= p.c_all
                /\ ~pop_less(zero, p)
                /\ p.c_all = dic[r[2][1]]
                /\ sumCounts({<<q[1], q[2][2].c_k>> :
                                q \in {x \in scoreTable : x[2][1] = r[2][1]}}) = p.c_all

\* the scores are there, and a token has a score below 0 in two groups
C4_Witness ==
    /\ ScoresReady
    /\ \E r, q \in scoreTable :
           /\ r[2][1] = q[2][1] /\ r[1] # q[1]
           /\ r[2][2].c_k < r[2][2].c_all
           /\ q[2][2].c_k < q[2][2].c_all

\* (-score, token) of x comes before that of y
precedes(x, y) ==
    \/ pop_less(y[2], x[2])
    \/ pop_equal(x[2], y[2]) /\ str_less(x[1], y[1])

\* C5  Per-group ranking and tie-break: the list printed for a group holds
\* at most 10 of the group's (token, score) pairs, by descending score, with
\* equal scores in ascending order of the token; no pair of the group that
\* is left out comes before a listed one under (-score, token), and pairs
\* are left out only of a list of 10.
C5_Ranking ==
    \A k \in 1..Len(printed) :
        LET g     == printed[k][1]
            shown == printed[k][2]
            all   == {r[2] : r \in {x \in scoreTable : x[1] = g}}
        IN  /\ Len(shown) <= 10
            /\ \A a \in 1..Len(shown) : shown[a] \in all
            /\ \A a, b \in 1..Len(shown) :
                  a < b =>
                     /\ ~pop_less(shown[a][2], shown[b][2])
                     /\ pop_equal(shown[a][2], shown[b][2]) =>
                           str_less(shown[a][1], shown[b][1])
            /\ \A x \in all :
                  (\A a \in 1..Len(shown) : shown[a] # x) =>
                     /\ Len(shown) = 10
                     /\ \A a \in 1..Len(shown) : ~precedes(x, shown[a])

\* a group with more than 10 scored tokens has been printed, and two of the
\* listed tokens have the same score
C5_Witness ==
    \E k \in 1..Len(printed) :
        LET g     == printed[k][1]
            shown == printed[k][2]
        IN  /\ Cardinality({x \in scoreTable : x[1] = g}) > 10
            /\ Len(shown) = 10
            /\ \E a, b \in 1..Len(shown) :
                  a < b /\ pop_equal(shown[a][2], shown[b][2])

\* C6  Group assignment and post counts: result has one entry for each group
\* in 0..7 that a valid tweet falls into (the table's value for the tweet's
\* user, 7 for a user the table lacks), the entry's count is the number of
\* those tweets, the counts sum to the number of valid tweets, and the
\* entries are in ascending order of the group.
C6_PostCounts ==
    PostsReady =>
        LET user(j)   == contents[j].v["user"].v["id_str"].v
            posts(g)  == Cardinality({j \in validLines : groupOf(user(j)) = g})
        IN  /\ \A k \in 1..Len(result) :
                  /\ result[k][1] \in 0..7
                  /\ result[k][2] = posts(result[k][1])
            /\ \A j \in validLines :
                  \E k \in 1..Len(result) : result[k][1] = groupOf(user(j))
            /\ \A k \in 1..(Len(result) - 1) : result[k][1] < result[k + 1][1]
            /\ sumCounts(Range(result)) = Cardinality(validLines)

\* result is there for an input with a tweet of a user of the table and a
\* tweet of a user the table lacks
C6_Witness ==
    /\ PostsReady
    /\ Len(result) >= 2
    /\ \E j, q \in validLines :
           /\ contents[j].v["user"].v["id_str"].v \in DOMAIN mypickle
           /\ contents[q].v["user"].v["id_str"].v \notin DOMAIN mypickle
    /\ \E k \in 1..Len(result) : result[k][1] = 7

----------------------------------------------------------------------------
(* Properties of reduceByKey (SpecAgg)                                      *)

\* the whole sequence aggregated in order: the count of a key starts with
\* its first value and grows by a + b with every later one
RECURSIVE sequential(_, _)
sequential(pairs, counts) ==
    IF pairs = <<>> THEN counts
    ELSE LET k == Head(pairs)[1]
             v == Head(pairs)[2]
         IN  sequential(Tail(pairs),
                 [x \in DOMAIN counts \cup {k} |->
                     IF x # k THEN counts[x]
                     ELSE IF k \in DOMAIN counts THEN counts[k] + v ELSE v])

\* C11  Aggregation order-independence: however the (key, 1) elements are
\* split into partitions and in whatever order and grouping the partitions'
\* counts are merged with a + b, the reduced RDD is the key -> count mapping
\* that aggregating the whole sequence in order gives; reduceByKey of the
\* scripts' model is that mapping too.
C11_OrderIndependence ==
    pc3 = "done" =>
        /\ agg_result = items(sequential(agg_pairs, <<>>))
        /\ agg_result = items(reduceByKey("add", agg_pairs))

\* the job is over; a key had elements in two partitions and another key
\* lay between them
C11_Witness ==
    /\ pc3 = "done"
    /\ \E sh1, sh2 \in 1..NumShards :
          /\ sh1 # sh2
          /\ \E j \in 1..Len(agg_shards[sh1]), q \in 1..Len(agg_shards[sh2]) :
                 agg_shards[sh1][j][1] = agg_shards[sh2][q][1]
    /\ \E e, f \in agg_result : e[1] # f[1] /\ e[2] >= 2

----------------------------------------------------------------------------
(* Properties of the two take calls (SpecScripts)                           *)

\* shown holds k elements of the table S, or all of S if S has fewer; their
\* counts do not increase along shown, and no element of S that is left out
\* has a greater count than one that is shown
topOf(shown, S, k) ==
    /\ Len(shown) = (IF Cardinality(S) < k THEN Cardinality(S) ELSE k)
    /\ \A a \in 1..Len(shown) : shown[a] \in S
    /\ \A a, b \in 1..Len(shown) : a < b => shown[a] # shown[b] /\ shown[a][2] >= shown[b][2]
    /\ \A x \in S :
          (\A a \in 1..Len(shown) : shown[a] # x) =>
              \A a \in 1..Len(shown) : x[2] <= shown[a][2]

\* C12  Top-K retrieval: the entries printOutput takes from the sorted
\* n-gram table are 5 (all, for a smaller table) in non-increasing order of
\* the count, and no n-gram outside them has a greater count than a listed
\* one; the same for the 20 entries taken from the filtered token table.
C12_TopK ==
    /\ pc1 \in {"for", "IndexError"} => topOf(top, freq_ngramRDD, 5)
    /\ pc2 \in {"dic", "interresults", "report", "done"} => topOf(top20, tokens, 20)

\* five n-grams were taken from a table of more than five with equal counts
\* at the cut
C12_Witness ==
    /\ pc1 = "for" /\ Len(top) = 5
    /\ \E x \in freq_ngramRDD :
          /\ \A a \in 1..Len(top) : top[a] # x
          /\ x[2] = top[5][2]
    /\ top[1][2] > top[5][2]

----------------------------------------------------------------------------
(* The reports of the groups, under SpecHw2                                 *)

\* the users of group g among the users of token t in the mentions M
groupUsers(M, g, t) == {u \in usersOf(M, t) : groupOf(u) = g}

\* C16 (Group report isolation): after partitionBy(8) and glom there are the
\* buckets 0..7, bucket i holds only records with group key i and a record
\* for every token of the table that a user of group i wrote; the k-th
\* report is labelled with group k - 1 and each of its lines is a token of
\* that group with the score of that group.
C16_GroupIsolation ==
    ScoresReady =>
        LET M == mentions IN
        /\ DOMAIN interresults = 0..7
        /\ \A i \in 0..7 :
              /\ \A r \in interresults[i] : r[1] = i
              /\ \A m \in M :
                    (groupOf(m[1]) = i /\ m[2] \in DOMAIN dic) =>
                        \E r \in interresults[i] : r[2][1] = m[2]
        /\ \A k \in 1..Len(printed) :
              LET i     == printed[k][1]
                  shown == printed[k][2]
              IN  /\ i = k - 1
                  /\ \A a \in 1..Len(shown) :
                        /\ groupUsers(M, i, shown[a][1]) # {}
                        /\ shown[a][2].c_k = Cardinality(groupUsers(M, i, shown[a][1]))
                  /\ (\E m \in M : groupOf(m[1]) = i /\ m[2] \in DOMAIN dic) =>
                        shown # <<>>

\* all eight reports are printed, and a token is listed for two groups with
\* different numbers of users
C16_Witness ==
    /\ pc2 = "done" /\ Len(printed) = 8
    /\ \E k1, k2 \in 1..Len(printed) :
          /\ k1 < k2
          /\ \E a \in 1..Len(printed[k1][2]), b \in 1..Len(printed[k2][2]) :
                /\ printed[k1][2][a][1] = printed[k2][2][b][1]
                /\ printed[k1][2][a][2].c_k # printed[k2][2][b][2].c_k

----------------------------------------------------------------------------
(* Claims on the tokenizer, under SpecTok                                   *)

\* whether the whole of x is an emoticon of hw2.py:341-352
emoticon(x) == (Len(x) + 1) \in Range(ends(emoticon_string, x, 1))

\* the words that the scan of hw2.py:435 finds in the text of byte string s
scanned(s) == findall(word_re, html2unicode(to_unicode(s).val))

\* C14 (Tokenizer case folding): when case is not preserved, every token
\* that is an emoticon is returned as it was written (":D" stays ":D"), and
\* every other token, a URL for one, is returned without an upper-case
\* letter.
C14_CaseFolding ==
    (fn = "tokenize" /\ ret.exc = "none") =>
        \A j \in 1..Len(ret.val) :
            IF emoticon(scanned(arg_s)[j])
            THEN ret.val[j] = scanned(arg_s)[j]
            ELSE \A i \in 1..Len(ret.val[j]) : ~isupper(ret.val[j][i])

============================================================================
